---- MODULE Spec2Model ----
(***************************************************************************)
(* The Hacker News "newest" page walker of montyplexer/qa-wolf-take-home.  *)
(*                                                                         *)
(* src/unnamed/part_000 holds three versions of the script:                *)
(*   "ClickChecked"   lines  28-182  paginates by clicking "More" and      *)
(*                                   counts the control after each click;  *)
(*   "ClickUnchecked" lines 220-357  paginates by clicking "More" without  *)
(*                                   that count;                           *)
(*   "Offset"         lines 374-488  paginates with goto(...?n=offset).    *)
(*                                                                         *)
(* The site is the environment.  What a page holds is fixed the first time *)
(* the script reads it (more_links, counts, titles, outside are the parts  *)
(* of the snapshot read so far), so that a second run over the same        *)
(* snapshot reads the same values.                                         *)
(***************************************************************************)
EXTENDS Integers, Sequences, FiniteSets, TLC

VARIABLES
    variant,                          \* which version of the script runs
    num_of_articles_to_validate,      \* T (line 35: 100)
    page_size,                        \* P, the site's page size
    start_time,                       \* new Date() read at line 41
    article_index,                    \* line 38
    newest_timestamp,                 \* line 41
    pc,                               \* position of the single thread of control
    page_start,                       \* rank of the first entry of the loaded page, 0: none
    fetches,                          \* page loads so far (goto and followed clicks)
    num_of_articles_to_check_on_page, \* line 142
    i,                                \* loop variable of line 145
    verified,                         \* ranks of the entries accepted, in order
    comparisons,                      \* executions of the comparison of line 160
    failure,                          \* which exit was taken
    exit_code,                        \* <<>> while running, <<code>> once exited
    page_open,                        \* FALSE once page.close() was called
    delay,                            \* the pacing waited around the last click, 0: elapsed
    more_links,                       \* snapshot: page -> number of ".morelink"
    counts,                           \* snapshot: page -> <<ages, athings, scores>>
    titles,                           \* snapshot: rank -> title attribute of ".age"
    outside,                          \* snapshot: page -> elements outside article_table
    run,                              \* 1: first run, 2: a re-run over the snapshot
    first_verdict,                    \* verdict of the first run
    first_start                       \* start_time of the first run

vars == <<variant, num_of_articles_to_validate, page_size, start_time,
          article_index, newest_timestamp, pc, page_start, fetches,
          num_of_articles_to_check_on_page, i, verified, comparisons, failure,
          exit_code, page_open, delay, more_links, counts, titles, outside,
          run, first_verdict, first_start>>

config == <<variant, num_of_articles_to_validate, page_size>>
cursor == <<article_index, newest_timestamp>>
snapshot == <<more_links, counts, titles, outside>>
rerun == <<run, first_verdict, first_start>>

----------------------------------------------------------------------------
(* Bounds *)

MaxTarget == 3
MaxPageSize == 2
MaxTime == 2
MaxRerunTarget == 2
MaxRerunPageSize == 1
MaxFetches == 4
RandomSteps == 2

(* Program constants *)

InvalidDate == 0
ExitSuccess == 0
ExitMinusOne == 255
ExitUncaught == 1

Variants == {"ClickChecked", "ClickUnchecked", "Offset"}
Clicking == {"ClickChecked", "ClickUnchecked"}

\* title attributes: 0 is text Date cannot parse, t > 0 is the date text of time t
TitleAttrs == 0..MaxTime
Times == 1..MaxTime
\* the pagination control is absent, single or duplicated
MoreCounts == {0, 1, 2}

Min(a, b) == IF a < b THEN a ELSE b

----------------------------------------------------------------------------
(* Pure functions of the script *)

\* new Date(title): Invalid Date for text that is no date
NewDate(title) == IF title \in Times THEN title ELSE InvalidDate

\* >= written for >
NewerOrEqual(timestamp, bound) ==
    /\ timestamp # InvalidDate
    /\ bound # InvalidDate
    /\ timestamp >= bound

\* a reversed comparison
NewerReversed(timestamp, bound) ==
    /\ timestamp # InvalidDate
    /\ bound # InvalidDate
    /\ timestamp < bound

\* timestamp > newest_timestamp on Dates: false when either is Invalid Date (NaN)
Newer(timestamp, bound) ==
    /\ timestamp # InvalidDate
    /\ bound # InvalidDate
    /\ timestamp > bound

\* Math.random() = r / RandomSteps
random_delay(ms_min_time, ms_range, r) == ms_min_time + ((r * ms_range) \div RandomSteps)

\* the loop condition of sortHackerNewsArticles
LoopCondition(v, index, target) ==
    IF v = "Offset" THEN index < target ELSE index <= target

\* Math.min(count_athings, ...)
NumToCheck(v, count_athings, index, target) ==
    IF v = "Offset" THEN Min(count_athings, target - index)
                    ELSE Min(count_athings, target - index + 1)

\* the comparison with the scores forgotten
CountsDifferAgesOnly(c) == c[1] # c[2]

\* count_ages !== count_athings || count_ages !== count_scores
CountsDiffer(c) == c[1] # c[2] \/ c[1] # c[3]

\* page.waitForSelector looks at the whole page, the locators of
\* validateArticlesOnPage inside article_table, the second nested table (but
\* page.locator('.age') in the second version, line 297): with c what the locators
\* count and stray the presence of such elements outside article_table, the wait
\* times out when the whole page has no element of one class (the
\* article_table.waitFor() of the third version, line 420, is one more wait that
\* ends in the same timeout)
SelectorMissing(v, c, stray) ==
    \/ c[1] = 0 /\ (v = "ClickUnchecked" \/ ~stray)
    \/ c[2] = 0 /\ ~stray
    \/ c[3] = 0 /\ ~stray

----------------------------------------------------------------------------
(* Reading the snapshot *)

ReadMore(c) ==
    IF page_start \in DOMAIN more_links
    THEN c = more_links[page_start] /\ UNCHANGED more_links
    ELSE more_links' = (page_start :> c) @@ more_links

ReadCounts(c) ==
    IF page_start \in DOMAIN counts
    THEN c = counts[page_start] /\ UNCHANGED counts
    ELSE counts' = (page_start :> c) @@ counts

ReadTitle(rank, t) ==
    IF rank \in DOMAIN titles
    THEN t = titles[rank] /\ UNCHANGED titles
    ELSE titles' = (rank :> t) @@ titles

\* asked only of a page where a locator counts nothing
ReadOutside(c, stray) ==
    IF 0 \in {c[k] : k \in 1..3}
    THEN IF page_start \in DOMAIN outside
         THEN stray = outside[page_start] /\ UNCHANGED outside
         ELSE outside' = (page_start :> stray) @@ outside
    ELSE stray = FALSE /\ UNCHANGED outside

\* what the three locators can count on a page of at most page_size entries
PageCounts == (0..page_size) \X (0..page_size) \X (0..page_size)

----------------------------------------------------------------------------
(* The state after lines 30-41 *)

Init ==
    /\ variant \in Variants
    /\ num_of_articles_to_validate \in 0..MaxTarget
    /\ page_size \in 1..MaxPageSize
    /\ start_time \in Times
    /\ article_index = 1
    /\ newest_timestamp = start_time
    /\ pc = IF variant = "Offset" THEN "loop" ELSE "goto"
    /\ page_start = 0
    /\ fetches = 0
    /\ num_of_articles_to_check_on_page = 0
    /\ i = 0
    /\ verified = <<>>
    /\ comparisons = 0
    /\ failure = "none"
    /\ exit_code = <<>>
    /\ page_open = TRUE
    /\ delay = 0
    /\ more_links = <<>>
    /\ counts = <<>>
    /\ titles = <<>>
    /\ outside = <<>>
    /\ run = 1
    /\ first_verdict = FALSE
    /\ first_start = start_time

\* the process ends: process.exit(code), or an error nobody catches
Exit(kind, code) ==
    /\ pc' = "terminated"
    /\ failure' = kind
    /\ exit_code' = <<code>>

----------------------------------------------------------------------------
(* sortHackerNewsArticles *)

\* page.goto(".../newest") of the clicking versions (lines 46, 236)
Goto ==
    /\ pc = "goto"
    /\ page_start' = 1
    /\ fetches' = fetches + 1
    /\ pc' = "expect"
    /\ UNCHANGED <<config, start_time, cursor, num_of_articles_to_check_on_page, i,
                   verified, comparisons, failure, exit_code, page_open, delay,
                   snapshot, rerun>>

\* await expect(more_button).toHaveCount(1) (lines 51, 242): throws otherwise
ExpectMoreCount ==
    /\ pc = "expect"
    /\ \E c \in MoreCounts :
        /\ ReadMore(c)
        /\ IF c = 1
           THEN pc' = "loop" /\ UNCHANGED <<failure, exit_code>>
           ELSE Exit("ExpectFailed", ExitUncaught)
    /\ UNCHANGED <<config, start_time, cursor, page_start, fetches,
                   num_of_articles_to_check_on_page, i, verified, comparisons,
                   page_open, delay, counts, titles, outside, rerun>>

\* while (...) (lines 54, 245, 397)
LoopTest ==
    /\ pc = "loop"
    /\ pc' = IF LoopCondition(variant, article_index, num_of_articles_to_validate)
             THEN (IF variant = "Offset" THEN "goto_offset" ELSE "click")
             ELSE "close"
    /\ UNCHANGED <<config, start_time, cursor, page_start, fetches,
                   num_of_articles_to_check_on_page, i, verified, comparisons, failure,
                   exit_code, page_open, delay, snapshot, rerun>>

\* the pacing of one iteration: random_delay(200,800) twice (lines 57, 63);
\* Math.floor(Math.random() * 1000) + 500, then 1000 (lines 255-256, 266)
PacingDelay(r1, r2) ==
    IF variant = "ClickChecked"
    THEN random_delay(200, 800, r1) + random_delay(200, 800, r2)
    ELSE random_delay(500, 1000, r1) + 1000

\* waitForTimeout; more_button.click(); waitForTimeout (lines 57-63, 255-266).
\* click() throws when the locator matches no element (timeout) or two (strict mode).
ClickMore ==
    /\ pc = "click"
    /\ fetches < MaxFetches
    /\ \E c \in MoreCounts, r1 \in 0..(RandomSteps - 1), r2 \in 0..(RandomSteps - 1) :
        /\ ReadMore(c)
        /\ IF c = 1
           THEN /\ page_start' = page_start + page_size
                /\ fetches' = fetches + 1
                /\ delay' = PacingDelay(r1, r2)
                /\ pc' = IF variant = "ClickChecked" THEN "count" ELSE "wait"
                /\ UNCHANGED <<failure, exit_code>>
           ELSE /\ Exit("ClickFailed", ExitUncaught)
                /\ UNCHANGED <<page_start, fetches, delay>>
    /\ UNCHANGED <<config, start_time, cursor, num_of_articles_to_check_on_page, i,
                   verified, comparisons, page_open, counts, titles, outside, rerun>>

\* if (await more_button.count() !== 1) { ...; process.exit(-1); } (lines 67-76)
CountMore ==
    /\ pc = "count"
    /\ delay' = 0
    /\ \E c \in MoreCounts :
        /\ ReadMore(c)
        /\ IF c # 1
           THEN Exit("NavigationFailure", ExitMinusOne)
           ELSE pc' = "wait" /\ UNCHANGED <<failure, exit_code>>
    /\ UNCHANGED <<config, start_time, cursor, page_start, fetches,
                   num_of_articles_to_check_on_page, i, verified, comparisons,
                   page_open, counts, titles, outside, rerun>>

\* page.goto(".../newest?n=" + article_index) of the offset version (line 401)
GotoOffset ==
    /\ pc = "goto_offset"
    /\ fetches < MaxFetches
    /\ page_start' = article_index
    /\ fetches' = fetches + 1
    /\ pc' = "wait"
    /\ UNCHANGED <<config, start_time, cursor, num_of_articles_to_check_on_page, i,
                   verified, comparisons, failure, exit_code, page_open, delay,
                   snapshot, rerun>>

\* waitForSelector('.age'), ('.athing'), ('.score') (lines 79-81, 268-270 and 292-294,
\* 403 and 422-424): each throws a timeout error when the page has no such element
WaitForSelectors ==
    /\ pc = "wait"
    /\ delay' = 0
    /\ \E c \in PageCounts, stray \in BOOLEAN :
        /\ ReadCounts(c)
        /\ ReadOutside(c, stray)
        /\ IF SelectorMissing(variant, c, stray)
           THEN Exit("SelectorTimeout", ExitUncaught)
           ELSE pc' = "validate" /\ UNCHANGED <<failure, exit_code>>
    /\ UNCHANGED <<config, start_time, cursor, page_start, fetches,
                   num_of_articles_to_check_on_page, i, verified, comparisons,
                   page_open, more_links, titles, rerun>>

----------------------------------------------------------------------------
(* validateArticlesOnPage *)

\* lines 120-142: the counts are compared; exit(-1) names no function, so the
\* ReferenceError it throws ends the process as an uncaught error
ValidateCounts ==
    /\ pc = "validate"
    /\ LET c == counts[page_start] IN
        IF CountsDiffer(c)
        THEN /\ Exit("StructuralMismatch", ExitUncaught)
             /\ UNCHANGED <<num_of_articles_to_check_on_page, i>>
        ELSE /\ num_of_articles_to_check_on_page' =
                    NumToCheck(variant, c[2], article_index, num_of_articles_to_validate)
             /\ i' = 0
             /\ pc' = "for"
             /\ UNCHANGED <<failure, exit_code>>
    /\ UNCHANGED <<config, start_time, cursor, page_start, fetches, verified,
                   comparisons, page_open, delay, snapshot, rerun>>

\* one iteration of the loop of lines 145-173
CheckArticle ==
    /\ pc = "for"
    /\ i < num_of_articles_to_check_on_page
    /\ \E title \in TitleAttrs :
        /\ ReadTitle(page_start + i, title)
        /\ LET timestamp == NewDate(title) IN
            IF Newer(timestamp, newest_timestamp)
            THEN /\ Exit("OrderViolation", ExitMinusOne)
                 /\ UNCHANGED <<cursor, i, verified>>
            ELSE /\ newest_timestamp' = timestamp
                 /\ article_index' = article_index + 1
                 /\ i' = i + 1
                 /\ verified' = Append(verified, page_start + i)
                 /\ UNCHANGED <<pc, failure, exit_code>>
    /\ comparisons' = comparisons + 1
    /\ UNCHANGED <<config, start_time, page_start, fetches,
                   num_of_articles_to_check_on_page, page_open, delay, more_links,
                   counts, outside, rerun>>

\* return [article_index, newest_timestamp] (line 181), assigned at line 87
ValidateReturn ==
    /\ pc = "for"
    /\ ~(i < num_of_articles_to_check_on_page)
    /\ pc' = "loop"
    /\ UNCHANGED <<config, start_time, cursor, page_start, fetches,
                   num_of_articles_to_check_on_page, i, verified, comparisons, failure,
                   exit_code, page_open, delay, snapshot, rerun>>

----------------------------------------------------------------------------
(* The success exit *)

\* page.close() (lines 92, 278, 409)
PageClose ==
    /\ pc = "close"
    /\ page_open' = FALSE
    /\ pc' = "exit"
    /\ UNCHANGED <<config, start_time, cursor, page_start, fetches,
                   num_of_articles_to_check_on_page, i, verified, comparisons, failure,
                   exit_code, delay, snapshot, rerun>>

\* process.exit(0) (lines 98, 282, 410)
ProcessExit ==
    /\ pc = "exit"
    /\ Exit("none", ExitSuccess)
    /\ UNCHANGED <<config, start_time, cursor, page_start, fetches,
                   num_of_articles_to_check_on_page, i, verified, comparisons,
                   page_open, delay, snapshot, rerun>>

Next ==
    \/ Goto
    \/ ExpectMoreCount
    \/ LoopTest
    \/ ClickMore
    \/ CountMore
    \/ GotoOffset
    \/ WaitForSelectors
    \/ ValidateCounts
    \/ CheckArticle
    \/ ValidateReturn
    \/ PageClose
    \/ ProcessExit

Spec == Init /\ [][Next]_vars

----------------------------------------------------------------------------
(* A second run of the script over the snapshot the first run read *)

Rerun ==
    /\ pc = "terminated"
    /\ run = 1
    /\ run' = 2
    /\ first_verdict' = (exit_code = <<ExitSuccess>>)
    /\ first_start' = start_time
    /\ start_time' \in Times
    /\ article_index' = 1
    /\ newest_timestamp' = start_time'
    /\ pc' = IF variant = "Offset" THEN "loop" ELSE "goto"
    /\ page_start' = 0
    /\ fetches' = 0
    /\ num_of_articles_to_check_on_page' = 0
    /\ i' = 0
    /\ verified' = <<>>
    /\ comparisons' = 0
    /\ failure' = "none"
    /\ exit_code' = <<>>
    /\ page_open' = TRUE
    /\ delay' = 0
    /\ UNCHANGED <<config, snapshot>>

NextRerun == Next \/ Rerun

\* two runs take the square of the work of one: the target and the page size are
\* bounded apart
InitRerun ==
    /\ Init
    /\ num_of_articles_to_validate <= MaxRerunTarget
    /\ page_size <= MaxRerunPageSize

SpecRerun == InitRerun /\ [][NextRerun]_vars

----------------------------------------------------------------------------
(* Derived notions *)

Terminated == pc = "terminated"
Success == Terminated /\ exit_code = <<ExitSuccess>>
Failed == Terminated /\ exit_code # <<ExitSuccess>>
verified_so_far == article_index - 1

----------------------------------------------------------------------------
(* Notions the claims use *)

CeilDiv(a, b) == (a + b - 1) \div b

\* the timestamp of the k-th verified entry
VerifiedTime(k) == NewDate(titles[verified[k]])

\* the page has been read and its whole lacks the elements of one class
ClassAbsent ==
    /\ page_start \in DOMAIN counts
    /\ \E k \in 1..3 :
        /\ counts[page_start][k] = 0
        /\ \/ page_start \notin DOMAIN outside
           \/ ~outside[page_start]
           \/ k = 1 /\ variant = "ClickUnchecked"

\* the loaded page has been read and its counts are not all equal
MismatchPage ==
    /\ page_start \in DOMAIN counts
    /\ Cardinality({counts[page_start][k] : k \in 1..3}) > 1

\* no entry of the loaded page was compared, and the cursor is where the
\* entries verified before this page left it
PageUntouched ==
    /\ \A k \in 1..Len(verified) : verified[k] < page_start
    /\ comparisons = Len(verified)
    /\ article_index = Len(verified) + 1
    /\ newest_timestamp = IF verified = <<>> THEN start_time
                          ELSE VerifiedTime(Len(verified))

\* every page read so far held page_size entries
FullPages ==
    \A p \in DOMAIN counts : counts[p] = <<page_size, page_size, page_size>>

\* the rank of the first entry a run evaluates: the lowest rank read
FirstRank == CHOOSE r \in DOMAIN titles : \A q \in DOMAIN titles : r <= q

\* a run started at t starts before the time of the first entry it evaluates
EarlyStart(t) ==
    /\ DOMAIN titles # {}
    /\ titles[FirstRank] \in Times
    /\ titles[FirstRank] > t

----------------------------------------------------------------------------
(* The claims *)

\* C1: the verified entries are in non-increasing timestamp order, at success and
\* at every intermediate state.  Stated over the verified entries whose timestamp
\* is a valid time: any two of them, the earlier verified is not the older.  (When
\* every timestamp is valid this is the adjacent-pairs statement.)
C1_VerifiedNonIncreasing ==
    \A a \in 1..Len(verified) : \A b \in 1..Len(verified) :
        (a < b /\ VerifiedTime(a) \in Times /\ VerifiedTime(b) \in Times)
            => VerifiedTime(a) >= VerifiedTime(b)

\* C2: in every version, success is reported only with exactly T entries verified,
\* and never more than T are verified.
C2_SuccessOnlyAtTarget ==
    /\ Len(verified) <= num_of_articles_to_validate
    /\ verified_so_far = Len(verified)
    /\ Success => verified_so_far = num_of_articles_to_validate

\* C3: the k-th verified entry is the k-th entry of the listing.
C3_VerifiesFirstEntries ==
    \A k \in 1..Len(verified) : verified[k] = k

\* C4: each page has exactly min(entries_on_page, T - verified_so_far) entries
\* evaluated, and a successful run over full pages makes ceil(T/P) page fetches.
C4_PageAccounting ==
    /\ pc = "for" =>
        num_of_articles_to_check_on_page =
            Min(counts[page_start][2],
                num_of_articles_to_validate - (verified_so_far - i))
    /\ (Success /\ FullPages) =>
        fetches = CeilDiv(num_of_articles_to_validate, page_size)

\* C5: with T = 0 the run succeeds without a page fetch and without a check of
\* the pagination control.
C5_ZeroTargetZeroFetches ==
    num_of_articles_to_validate = 0 =>
        /\ fetches = 0
        /\ more_links = <<>>
        /\ ~Failed

C7_FailFast ==
    [][ /\ ( /\ pc = "for"
             /\ comparisons' = comparisons + 1
             /\ newest_timestamp \in Times
             /\ titles'[page_start + i] \in Times
             /\ titles'[page_start + i] > newest_timestamp )
          => ( /\ Failed'
               /\ failure' = "OrderViolation"
               /\ verified' = verified
               /\ cursor' = cursor )
        /\ Failed
          => ( /\ Failed'
               /\ comparisons' = comparisons
               /\ fetches' = fetches
               /\ verified' = verified ) ]_vars

C7_Witness ==
    /\ Failed
    /\ failure = "OrderViolation"
    /\ Len(verified) = 1
    /\ comparisons = 2

\* C8: in the versions that click the control, a page reached by a click that
\* does not show exactly one control has none of its entries evaluated, and the
\* run ends there with NavigationFailure.
C8_NavigationChecked ==
    ( /\ variant \in Clicking
      /\ fetches >= 2
      /\ page_start \in DOMAIN more_links
      /\ more_links[page_start] # 1 )
        => /\ PageUntouched
           /\ Terminated => (Failed /\ failure = "NavigationFailure")

\* C9: on the success, order violation, structural mismatch and navigation
\* failure exits, no terminated state has the page still open.
C9_SessionReleased ==
    ( /\ Terminated
      /\ failure \in {"none", "OrderViolation", "StructuralMismatch",
                      "NavigationFailure"} )
        => ~page_open

\* C10 as stated: a second run over the snapshot reaches the verdict of the first,
\* whatever delays are drawn and whenever the runs start.
C10_SameVerdict ==
    (run = 2 /\ Terminated) => (Success <=> first_verdict)

\* C10 amended: a second run over the snapshot reaches the verdict of the first
\* whatever delays are drawn, provided neither run starts before the time of the
\* first entry it evaluates.
C10_SameVerdictUnlessEarlyStart ==
    (run = 2 /\ Terminated /\ ~EarlyStart(first_start) /\ ~EarlyStart(start_time))
        => (Success <=> first_verdict)

C10_Witness ==
    /\ run = 2
    /\ Success
    /\ first_verdict
    /\ first_start # start_time
    /\ variant = "ClickChecked"
    /\ Len(verified) = 2
    /\ titles[FirstRank] \in Times

\* C11: the cursor moves monotonically at every step, page boundaries included:
\* the count never decreases, the bound is never a later time than a time it held
\* before (the start time, the times of the entries verified so far), an accepted
\* entry adds exactly one to the count and becomes the bound, and no step other
\* than a comparison changes the cursor.
C11_CursorMonotone ==
    [][ /\ article_index' >= article_index
        /\ newest_timestamp' \in Times
            => /\ newest_timestamp' <= start_time
               /\ \A k \in 1..Len(verified) :
                    VerifiedTime(k) \in Times => newest_timestamp' <= VerifiedTime(k)
        /\ (comparisons' = comparisons + 1 /\ verified' # verified)
            => /\ article_index' = article_index + 1
               /\ newest_timestamp' = NewDate(titles'[page_start + i])
               /\ verified' = Append(verified, page_start + i)
        /\ comparisons' = comparisons => cursor' = cursor ]_vars

\* C12: a run that reports success has accepted no entry whose timestamp is not a
\* valid time, so each of its verified entries was compared against a valid bound.
C12_NoInvalidDateAccepted ==
    Success => \A k \in 1..Len(verified) : VerifiedTime(k) # InvalidDate

\* the iterations of the page loop begun so far: each begins with a click or a
\* goto(?n=), and the clicking versions load one page before the loop
LoopIterations ==
    IF variant = "Offset" THEN fetches
    ELSE IF fetches = 0 THEN 0
    ELSE (fetches - 1) + (IF failure = "ClickFailed" THEN 1 ELSE 0)

\* C13: every run terminates: an iteration of the page loop that returns to the
\* loop test has strictly increased the verified count, so that the iterations
\* never outnumber the entries verified nor the target T, whatever the listing
\* (a page with no entry and equal counts, a page served again).
C13_EveryIterationProgresses ==
    /\ pc = "loop" => LoopIterations <= Len(verified)
    /\ LoopIterations <= num_of_articles_to_validate

====
